---- MODULE Spec2Model ----
(***************************************************************************)
(* Monte Carlo stock price simulation (monte_carlo_simulation.cpp):        *)
(* main reads six parameters, runMonteCarloSimulation builds an ensemble   *)
(* of Geometric Brownian Motion paths with generatePath, then              *)
(* calculateStatistics, saveResultsToCSV and generatePlotHTML consume it.  *)
(*                                                                         *)
(* The program computes in IEEE-754 binary64.  The model keeps the shape   *)
(* of that arithmetic (a fixed number of significand bits, gradual         *)
(* underflow to zero, overflow to infinity, NaN, round to nearest with     *)
(* ties to even) in a format scaled down to Prec significand bits, so that *)
(* every rounding, underflow and overflow the program can meet is met      *)
(* within the bounds of the model.                                         *)
(***************************************************************************)
EXTENDS Integers, Sequences, FiniteSets, TLC

(***************************************************************************)
(* double.  A finite value is an integer count of the smallest subnormal   *)
(* (2^-Prec), so 1.0 is One.  The finite values are m * 2^k with m below   *)
(* 2^Prec.  The two zeros are one value: the program divides only by int   *)
(* counts, whose conversion never yields -0.                               *)
(***************************************************************************)
Prec == 3
KMax == 4
One == 2^Prec
MaxFinite == (2^Prec - 1) * 2^KMax
PInf == MaxFinite + 2^KMax
NInf == -PInf
NaN == PInf + 1
Rep == {m * 2^k : m \in 0..(2^Prec - 1), k \in 0..KMax}
Finite == Rep \cup {-r : r \in Rep}
Double == Finite \cup {PInf, NInf, NaN}

Abs(n) == IF n < 0 THEN -n ELSE n
Sgn(n) == IF n < 0 THEN -1 ELSE 1
SetMax(S) == CHOOSE x \in S : \A y \in S : y <= x
SetMin(S) == CHOOSE x \in S : \A y \in S : x <= y

\* The comparisons of double: every comparison with a NaN is false.
FLess(x, y) == x # NaN /\ y # NaN /\ x < y
FLeq(x, y) == x # NaN /\ y # NaN /\ x <= y
FEq(x, y) == x # NaN /\ y # NaN /\ x = y

\* The double nearest to num/den >= 0 (in units of the smallest subnormal),
\* ties to the even significand, infinity from the midpoint above MaxFinite.
RoundPos(num, den) ==
    IF 2 * num >= den * (2 * MaxFinite + 2^KMax) THEN PInf
    ELSE LET lo == SetMax({r \in Rep : r * den <= num})
             hi == SetMin({r \in Rep \cup {PInf} : r * den >= num})
         IN  IF lo = hi THEN lo
             ELSE IF 2 * num < (lo + hi) * den THEN lo
             ELSE IF 2 * num > (lo + hi) * den THEN hi
             ELSE IF (lo \div (hi - lo)) % 2 = 0 THEN lo ELSE hi

Round(num, den) == Sgn(num) * RoundPos(Abs(num), den)

FNeg(x) == IF x = NaN THEN NaN ELSE -x

\* x + y
FAdd(x, y) ==
    IF x = NaN \/ y = NaN THEN NaN
    ELSE IF x \in {PInf, NInf} /\ y \in {PInf, NInf} THEN (IF x = y THEN x ELSE NaN)
    ELSE IF x \in {PInf, NInf} THEN x
    ELSE IF y \in {PInf, NInf} THEN y
    ELSE Round(x + y, 1)

\* x - y
FSub(x, y) == FAdd(x, FNeg(y))

\* x * y
FMul(x, y) ==
    IF x = NaN \/ y = NaN THEN NaN
    ELSE IF x \in {PInf, NInf} \/ y \in {PInf, NInf}
         THEN (IF x = 0 \/ y = 0 THEN NaN ELSE Sgn(x) * Sgn(y) * PInf)
    ELSE Round(x * y, One)

\* i * x for an int i (converted exactly: every int is a binary64 value)
FMulInt(i, x) ==
    IF x = NaN THEN NaN
    ELSE IF x \in {PInf, NInf} THEN (IF i = 0 THEN NaN ELSE Sgn(i) * x)
    ELSE Round(i * x, 1)

\* x / n for an int n (converted exactly)
FDivInt(x, n) ==
    IF x = NaN THEN NaN
    ELSE IF n = 0 THEN (IF x = 0 THEN NaN ELSE Sgn(x) * PInf)
    ELSE IF x \in {PInf, NInf} THEN Sgn(n) * x
    ELSE Sgn(n) * Round(x, Abs(n))

\* std::sqrt
FSqrt(x) ==
    IF x = NaN \/ x < 0 THEN NaN
    ELSE IF x = PInf THEN PInf
    ELSE LET t == x * One
             lo == SetMax({r \in Rep : r * r <= t})
             hi == SetMin({r \in Rep : r * r >= t})
         IN  IF lo = hi THEN lo
             ELSE IF 4 * t < (lo + hi) * (lo + hi) THEN lo
             ELSE IF 4 * t > (lo + hi) * (lo + hi) THEN hi
             ELSE IF (lo \div (hi - lo)) % 2 = 0 THEN lo ELSE hi

\* std::exp of the finite arguments between its underflow and its overflow,
\* each result the double nearest to e^(x/One).
ExpTable ==
    (-20 :> 1) @@ (-16 :> 1) @@ (-14 :> 1) @@ (-12 :> 2) @@ (-10 :> 2) @@
    (-8 :> 3) @@ (-7 :> 3) @@ (-6 :> 4) @@ (-5 :> 4) @@ (-4 :> 5) @@
    (-3 :> 5) @@ (-2 :> 6) @@ (-1 :> 7) @@ (0 :> 8) @@ (1 :> 10) @@
    (2 :> 10) @@ (3 :> 12) @@ (4 :> 14) @@ (5 :> 14) @@ (6 :> 16) @@
    (7 :> 20) @@ (8 :> 20) @@ (10 :> 28) @@ (12 :> 32) @@ (14 :> 48) @@
    (16 :> 56) @@ (20 :> 96)

\* std::exp
FExp(x) ==
    IF x = NaN THEN NaN
    ELSE IF x \in DOMAIN ExpTable THEN ExpTable[x]
    ELSE IF x > 0 THEN PInf
    ELSE 0

(***************************************************************************)
(* operator<< of a double on a std::ofstream: the decimal nearest to the   *)
(* value with at most StreamPrecision significant digits (the stream's     *)
(* default precision, scaled to the format as Prec is), ties to even,      *)
(* trailing zeros dropped.  A text is mant * 10^exp10.                     *)
(***************************************************************************)
StreamPrecision == 2

Pow10(n) == 10^n

\* The integer nearest to num/den, ties to even.
RoundHalfEven(num, den) ==
    LET q == num \div den
        r == num % den
    IN  IF 2 * r < den THEN q
        ELSE IF 2 * r > den THEN q + 1
        ELSE IF q % 2 = 0 THEN q ELSE q + 1

RECURSIVE StripZeros(_, _)
StripZeros(mant, exp10) ==
    IF mant # 0 /\ mant % 10 = 0 THEN StripZeros(mant \div 10, exp10 + 1)
    ELSE [mant |-> mant, exp10 |-> exp10]

\* The decimal exponent of the leading digit of a/One, a > 0.
LeadExp(a) ==
    CHOOSE e \in -4..4 :
        /\ IF e >= 0 THEN a >= Pow10(e) * One ELSE a * Pow10(-e) >= One
        /\ IF e + 1 >= 0 THEN a < Pow10(e + 1) * One ELSE a * Pow10(-(e + 1)) < One

Fmt(x) ==
    IF x = NaN THEN [kind |-> "nan", neg |-> FALSE, mant |-> 0, exp10 |-> 0]
    ELSE IF x \in {PInf, NInf} THEN [kind |-> "inf", neg |-> x < 0, mant |-> 0, exp10 |-> 0]
    ELSE IF x = 0 THEN [kind |-> "num", neg |-> FALSE, mant |-> 0, exp10 |-> 0]
    ELSE LET a == Abs(x)
             s == LeadExp(a) - StreamPrecision + 1
             m == IF s >= 0 THEN RoundHalfEven(a, One * Pow10(s))
                  ELSE RoundHalfEven(a * Pow10(-s), One)
             d == StripZeros(m, s)
         IN  [kind |-> "num", neg |-> x < 0, mant |-> d.mant, exp10 |-> d.exp10]

(***************************************************************************)
(* The inputs main reads: lines 312-328 take whatever numbers are typed.   *)
(***************************************************************************)
MaxSteps == 3
MaxPaths == 2

\* Ordinary parameters: S0 in {1, 1.5}, mu = 0.5, sigma in {0, 0.5}, T in {1, 2}.
OrdinaryInputs ==
    [S0 : {One, One + One \div 2}, mu : {One \div 2}, sigma : {0, One \div 2},
     T : {One, 2 * One}, steps : 1..MaxSteps, num_paths : 1..MaxPaths]

\* Parameters in range that drive std::exp out of the range of double:
\* S0 = 1, mu in {-6, 6}, sigma in {0, 3.5}, T in {1, 2}.
ExtremeInputs ==
    [S0 : {One}, mu : {-6 * One, 6 * One}, sigma : {0, 3 * One + One \div 2},
     T : {One, 2 * One}, steps : 1..MaxSteps, num_paths : 1..MaxPaths]

ValidInputs == OrdinaryInputs \cup ExtremeInputs

BaseInput ==
    [S0 |-> One, mu |-> One \div 2, sigma |-> One \div 2, T |-> One,
     steps |-> 1, num_paths |-> 1]

\* One parameter out of range at a time: S0 <= 0, sigma < 0, T <= 0,
\* steps < 1, num_paths < 1.
InvalidInputs ==
    {[BaseInput EXCEPT !.S0 = v] : v \in {0, -One}}
    \cup {[BaseInput EXCEPT !.sigma = -(One \div 2)]}
    \cup {[BaseInput EXCEPT !.T = v] : v \in {0, -One}}
    \cup {[BaseInput EXCEPT !.steps = 0]}
    \cup {[BaseInput EXCEPT !.num_paths = 0]}

Inputs == ValidInputs \cup InvalidInputs

\* The values dist(gen) may return: Z in {-1, 1}.
Draws == {-One, One}

NoParams == [S0 |-> 0, mu |-> 0, sigma |-> 0, T |-> 0, steps |-> 0, num_paths |-> 0]

NoStats ==
    [computed |-> FALSE, final_prices |-> <<>>, sorted_prices |-> <<>>,
     mean |-> 0, std_dev |-> 0, min_price |-> 0, max_price |-> 0,
     percentile_5 |-> 0, percentile_95 |-> 0]

NoFile == [open |-> FALSE, header |-> <<>>, rows |-> <<>>]

VARIABLES
    pc,              \* where main is
    params,          \* SimulationParams
    gen,             \* std::mt19937 of runMonteCarloSimulation: times seeded, draws taken
    paths,           \* the ensemble
    i,               \* path index of runMonteCarloSimulation's loop
    path,            \* generatePath's vector
    j,               \* step index of generatePath's loop
    stats,           \* the locals of calculateStatistics
    all_paths_file,  \* stock_price_paths.csv
    time_file,       \* time_points.csv
    html_file,       \* stock_price_plot.html
    calls,           \* path index of every generatePath call so far, in order
    draws            \* <<path index, step>> of every dist(gen) call so far, in order

vars == <<pc, params, gen, paths, i, path, j, stats, all_paths_file, time_file,
          html_file, calls, draws>>

Init ==
    /\ pc = "input"
    /\ params = NoParams
    /\ gen = [seeded |-> 0, pos |-> 0]
    /\ paths = <<>>
    /\ i = 0
    /\ path = <<>>
    /\ j = 0
    /\ stats = NoStats
    /\ all_paths_file = NoFile
    /\ time_file = <<>>
    /\ html_file = <<>>
    /\ calls = <<>>
    /\ draws = <<>>

\* main, lines 306-330: the six std::cin reads; nothing is checked.
ReadParams ==
    /\ pc = "input"
    /\ \E in \in Inputs : params' = in
    /\ pc' = "run"
    /\ UNCHANGED <<gen, paths, i, path, j, stats, all_paths_file, time_file,
                   html_file, calls, draws>>

\* runMonteCarloSimulation, lines 46-53: seed gen once, size the ensemble.
RunBegin ==
    /\ pc = "run"
    /\ gen' = [seeded |-> gen.seeded + 1, pos |-> 0]
    /\ paths' = [k \in 1..params.num_paths |-> <<>>]
    /\ i' = 0
    /\ pc' = "loop"
    /\ UNCHANGED <<params, path, j, stats, all_paths_file, time_file, html_file,
                   calls, draws>>

\* double dt = params.T / params.steps
Dt(p) == FDivInt(p.T, p.steps)

\* double drift = (params.mu - 0.5 * params.sigma * params.sigma) * dt
Drift(p) == FMul(FSub(p.mu, FMul(FMul(One \div 2, p.sigma), p.sigma)), Dt(p))

\* A volatility term that leaves sigma out.
VolNoSigma(p) == FSqrt(Dt(p))

\* double vol = params.sigma * std::sqrt(dt)
Vol(p) == FMul(p.sigma, FSqrt(Dt(p)))

\* A step without std::exp: the factor is the exponent itself.
StepPriceNoExp(prev, p, Z) == FMul(prev, FAdd(Drift(p), FMul(Vol(p), Z)))

\* path[i] = path[i-1] * std::exp(drift + vol * Z)
StepPrice(prev, p, Z) == FMul(prev, FExp(FAdd(Drift(p), FMul(Vol(p), Z))))

\* std::vector<double> path(params.steps + 1); path[0] = params.S0
NewPath(p) == [k \in 1..(p.steps + 1) |-> IF k = 1 THEN p.S0 ELSE 0]

\* generatePath, lines 22-34, called from line 54.
GenPathBegin ==
    /\ pc = "loop"
    /\ i < params.num_paths
    /\ path' = NewPath(params)
    /\ j' = 1
    /\ calls' = Append(calls, i)
    /\ pc' = "gen"
    /\ UNCHANGED <<params, gen, paths, i, stats, all_paths_file, time_file,
                   html_file, draws>>

\* A draw that advances the source twice.
DistTwice(g) == [g EXCEPT !.pos = g.pos + 2]

\* dist(gen), line 38: the source advances by one draw.
Dist(g) == [g EXCEPT !.pos = g.pos + 1]

\* generatePath, lines 37-40: one pass of the loop, one draw from gen.
GenPathStep ==
    /\ pc = "gen"
    /\ j <= params.steps
    /\ \E Z \in Draws : path' = [path EXCEPT ![j + 1] = StepPrice(path[j], params, Z)]
    /\ gen' = Dist(gen)
    /\ draws' = Append(draws, <<i, j>>)
    /\ j' = j + 1
    /\ UNCHANGED <<pc, params, paths, i, stats, all_paths_file, time_file,
                   html_file, calls>>

\* generatePath, line 42, and the assignment paths[i] = ... of line 54.
GenPathReturn ==
    /\ pc = "gen"
    /\ j > params.steps
    /\ paths' = [paths EXCEPT ![i + 1] = path]
    /\ i' = i + 1
    /\ pc' = "loop"
    /\ UNCHANGED <<params, gen, path, j, stats, all_paths_file, time_file,
                   html_file, calls, draws>>

\* runMonteCarloSimulation, line 57, back in main at line 334.
RunReturn ==
    /\ pc = "loop"
    /\ i >= params.num_paths
    /\ pc' = "stats"
    /\ UNCHANGED <<params, gen, paths, i, path, j, stats, all_paths_file,
                   time_file, html_file, calls, draws>>

\* The first price of every path in place of the last.
FinalPricesFirst(ps, p) == [k \in 1..Len(ps) |-> ps[k][1]]

\* final_prices: path[steps] of every path, lines 65-69.
FinalPrices(ps, p) == [k \in 1..Len(ps) |-> ps[k][p.steps + 1]]

\* The loops over final_prices run front to back; the model folds lo..hi in that
\* order, in two halves, the first evaluated before the second is entered, which
\* only bounds the depth of the evaluation.

\* sum += price over final_prices[lo..hi], lines 72-75.
RECURSIVE SumFrom(_, _, _, _)
SumFrom(final, lo, hi, acc) ==
    IF lo > hi THEN acc
    ELSE IF lo = hi THEN FAdd(acc, final[lo])
    ELSE LET first == SumFrom(final, lo, (lo + hi) \div 2, acc)
         IN  IF first \in Double THEN SumFrom(final, (lo + hi) \div 2 + 1, hi, first)
             ELSE first

\* double mean = sum / num_paths
Mean(final) == FDivInt(SumFrom(final, 1, Len(final), 0), Len(final))

\* sum_squared_diff += (price - mean) * (price - mean), lines 79-82.
RECURSIVE SumSquaredDiff(_, _, _, _, _)
SumSquaredDiff(final, mean, lo, hi, acc) ==
    IF lo > hi THEN acc
    ELSE IF lo = hi
         THEN FAdd(acc, FMul(FSub(final[lo], mean), FSub(final[lo], mean)))
    ELSE LET first == SumSquaredDiff(final, mean, lo, (lo + hi) \div 2, acc)
         IN  IF first \in Double
             THEN SumSquaredDiff(final, mean, (lo + hi) \div 2 + 1, hi, first)
             ELSE first

\* The divisor of the sample standard deviation.
SampleDivisor(n) == n - 1

\* The divisor of line 83: num_paths.
StdDevDivisor(n) == n

\* double std_dev = std::sqrt(sum_squared_diff / num_paths)
StdDev(final) ==
    FSqrt(FDivInt(SumSquaredDiff(final, Mean(final), 1, Len(final), 0),
                  StdDevDivisor(Len(final))))

\* std::min_element over [lo..hi] continuing from index smallest: the index of
\* the first element no later element is less than.
RECURSIVE MinIndex(_, _, _, _)
MinIndex(final, lo, hi, smallest) ==
    IF lo > hi THEN smallest
    ELSE IF lo = hi THEN (IF FLess(final[lo], final[smallest]) THEN lo ELSE smallest)
    ELSE LET first == MinIndex(final, lo, (lo + hi) \div 2, smallest)
         IN  IF first \in 1..hi THEN MinIndex(final, (lo + hi) \div 2 + 1, hi, first)
             ELSE first

\* *std::min_element(final_prices.begin(), final_prices.end())
MinElement(final) == final[MinIndex(final, 2, Len(final), 1)]

\* std::max_element likewise: the first element not less than any later one.
RECURSIVE MaxIndex(_, _, _, _)
MaxIndex(final, lo, hi, largest) ==
    IF lo > hi THEN largest
    ELSE IF lo = hi THEN (IF FLess(final[largest], final[lo]) THEN lo ELSE largest)
    ELSE LET first == MaxIndex(final, lo, (lo + hi) \div 2, largest)
         IN  IF first \in 1..hi THEN MaxIndex(final, (lo + hi) \div 2 + 1, hi, first)
             ELSE first

\* *std::max_element(final_prices.begin(), final_prices.end())
MaxElement(final) == final[MaxIndex(final, 2, Len(final), 1)]

HasNaN(final) == \E k \in 1..Len(final) : final[k] = NaN

\* The descending arrangement.
SortDescending(final) ==
    LET n == Len(final)
        vals == {final[k] : k \in 1..n}
        above == [v \in vals |-> Cardinality({k \in 1..n : final[k] > v})]
        downto == [v \in vals |-> Cardinality({k \in 1..n : final[k] >= v})]
    IN  [k \in 1..n |-> CHOOSE v \in vals : above[v] < k /\ k <= downto[v]]

\* std::sort on values that operator< orders (no NaN): the ascending arrangement.
SortAscending(final) ==
    LET n == Len(final)
        vals == {final[k] : k \in 1..n}
        below == [v \in vals |-> Cardinality({k \in 1..n : final[k] < v})]
        upto == [v \in vals |-> Cardinality({k \in 1..n : final[k] <= v})]
    IN  [k \in 1..n |-> CHOOSE v \in vals : below[v] < k /\ k <= upto[v]]

\* Every arrangement of the values.
Arrangements(final) ==
    {[k \in 1..Len(final) |-> final[f[k]]] : f \in Permutations(1..Len(final))}

\* The index rounded to nearest in place of truncated.
P5IndexRounded(n) == (5 * n + 50) \div 100

\* static_cast<int>(0.05 * num_paths).  The binary64 nearest 0.05 exceeds 1/20 by
\* less than half an ulp, so the rounded product truncates to floor(num_paths/20)
\* for every int num_paths.
P5Index(n) == (5 * n) \div 100

\* static_cast<int>(0.95 * num_paths).  The binary64 nearest 0.95 is below 19/20 by
\* less than half an ulp, and the rounded product truncates to floor(19*num_paths/20).
P95Index(n) == (95 * n) \div 100

\* The values calculateStatistics computes from final_prices, given what
\* std::sort left in sorted_prices (lines 71-93).
StatsOf(final, sorted) ==
    [computed |-> TRUE, final_prices |-> final, sorted_prices |-> sorted,
     mean |-> Mean(final), std_dev |-> StdDev(final),
     min_price |-> MinElement(final), max_price |-> MaxElement(final),
     percentile_5 |-> sorted[P5Index(Len(final)) + 1],
     percentile_95 |-> sorted[P95Index(Len(final)) + 1]]

\* With no path, min_element and max_element return end() and sorted_prices[0]
\* is outside the vector: the reads yield whatever is there.
StatsOfEmpty(g, h) ==
    [computed |-> TRUE, final_prices |-> <<>>, sorted_prices |-> <<>>,
     mean |-> Mean(<<>>), std_dev |-> StdDev(<<>>),
     min_price |-> g, max_price |-> g, percentile_5 |-> h, percentile_95 |-> h]

\* calculateStatistics, lines 61-104.  std::sort requires a strict weak order:
\* with a NaN among two or more values its behaviour is undefined, and so are
\* the reads of an empty ensemble.
CalculateStatistics ==
    /\ pc = "stats"
    /\ LET final == FinalPrices(paths, params)
       IN  \/ /\ Len(final) >= 1
              /\ Len(final) = 1 \/ ~HasNaN(final)
              /\ stats' = StatsOf(final, SortAscending(final))
              /\ pc' = "csv"
           \/ /\ Len(final) >= 2
              /\ HasNaN(final)
              /\ \E sorted \in Arrangements(final) : stats' = StatsOf(final, sorted)
              /\ pc' = "csv"
           \/ /\ Len(final) = 0
              /\ \E g \in {0, NaN}, h \in {0, NaN} : stats' = StatsOfEmpty(g, h)
              /\ pc' = "csv"
           \/ /\ Len(final) = 0 \/ (Len(final) >= 2 /\ HasNaN(final))
              /\ stats' = stats
              /\ pc' = "crashed"
    /\ UNCHANGED <<params, gen, paths, i, path, j, all_paths_file, time_file,
                   html_file, calls, draws>>

\* double t = i * (params.T / params.steps)
TimePoint(p, k) == FMulInt(k, FDivInt(p.T, p.steps))

\* The header of stock_price_paths.csv, lines 112-118.
HeaderRow(p) ==
    [label |-> "Path", cells |-> [k \in 1..(p.steps + 1) |-> Fmt(TimePoint(p, k - 1))]]

\* A row labelled with the path index itself.
PathRowFromZero(ps, p, r) ==
    [label |-> r, cells |-> [k \in 1..(p.steps + 1) |-> Fmt(ps[r + 1][k])]]

\* One row of stock_price_paths.csv, lines 122-127.
PathRow(ps, p, r) ==
    [label |-> r + 1, cells |-> [k \in 1..(p.steps + 1) |-> Fmt(ps[r + 1][k])]]

\* Time points counted from the first step in place of from 0.
TimeLinesFromOne(p) == [k \in 1..(p.steps + 1) |-> Fmt(TimePoint(p, k))]

\* time_points.csv, lines 133-138.
TimeLines(p) == [k \in 1..(p.steps + 1) |-> Fmt(TimePoint(p, k - 1))]

\* saveResultsToCSV, lines 107-141.
SaveResultsToCSV ==
    /\ pc = "csv"
    /\ all_paths_file' =
           [open |-> TRUE, header |-> HeaderRow(params),
            rows |-> [r \in 1..params.num_paths |-> PathRow(paths, params, r - 1)]]
    /\ time_file' = TimeLines(params)
    /\ pc' = "html"
    /\ UNCHANGED <<params, gen, paths, i, path, j, stats, html_file, calls, draws>>

\* generatePlotHTML, lines 144-302: the parameters written into the page.
GeneratePlotHTML ==
    /\ pc = "html"
    /\ html_file' = <<Fmt(params.S0), Fmt(FMulInt(100, params.mu)),
                      Fmt(FMulInt(100, params.sigma)), Fmt(params.T), params.num_paths>>
    /\ pc' = "done"
    /\ UNCHANGED <<params, gen, paths, i, path, j, stats, all_paths_file,
                   time_file, calls, draws>>

Next ==
    \/ ReadParams
    \/ RunBegin
    \/ GenPathBegin
    \/ GenPathStep
    \/ GenPathReturn
    \/ RunReturn
    \/ CalculateStatistics
    \/ SaveResultsToCSV
    \/ GeneratePlotHTML

Spec == Init /\ [][Next]_vars

(***************************************************************************)
(* calculateStatistics on its own: the state main is in at line 342, for   *)
(* ensembles larger than the runs of Spec build.  Every path is <<S0,      *)
(* terminal>> (steps = 1); the terminal values are any values a run can    *)
(* end with: positive, zero after underflow, infinite after overflow, NaN. *)
(***************************************************************************)
SmallPaths == 3
MaxEnsemble == 100

\* 0.125, 1, 1.25, 1.5, +inf, NaN
SmallValues == {1, One, One + One \div 4, One + One \div 2, 3 * One, PInf, NaN}

PositiveRep == Rep \ {0}

\* The q-th positive double, from q = 0.
NthPositive(q) == CHOOSE v \in PositiveRep : Cardinality({w \in PositiveRep : w < v}) = q

\* n positive finite terminal values in an order that is not sorted.
Scattered(n, a, b) ==
    [k \in 1..n |-> NthPositive((a * k + b) % Cardinality(PositiveRep))]

Terminals ==
    UNION {[1..n -> SmallValues] : n \in 0..SmallPaths}
    \cup {Scattered(n, a, b) : n \in 1..MaxEnsemble, a \in {1, 7}, b \in {0, 3}}

InitStats ==
    \E final \in Terminals :
        /\ pc = "stats"
        /\ params = [S0 |-> One, mu |-> One \div 2, sigma |-> One \div 2, T |-> One,
                     steps |-> 1, num_paths |-> Len(final)]
        /\ gen = [seeded |-> 1, pos |-> Len(final)]
        /\ paths = [k \in 1..Len(final) |-> <<One, final[k]>>]
        /\ i = Len(final)
        /\ path = IF Len(final) = 0 THEN <<>> ELSE <<One, final[Len(final)]>>
        /\ j = 2
        /\ stats = NoStats
        /\ all_paths_file = NoFile
        /\ time_file = <<>>
        /\ html_file = <<>>
        /\ calls = [k \in 1..Len(final) |-> k - 1]
        /\ draws = [k \in 1..Len(final) |-> <<k - 1, 1>>]

NextStats == CalculateStatistics \/ SaveResultsToCSV \/ GeneratePlotHTML

SpecStats == InitStats /\ [][NextStats]_vars

(***************************************************************************)
(* The properties.                                                         *)
(***************************************************************************)

\* The parameters the specification calls valid.
Valid(p) == p.S0 > 0 /\ p.sigma >= 0 /\ p.T > 0 /\ p.steps >= 1 /\ p.num_paths >= 1

\* The trajectories generatePath has returned so far.
Returned == 1..i

Positive(x) == FLess(0, x)

\* C1 as stated: for valid parameters every trajectory generatePath returns has
\* steps+1 elements, element 0 equal to S0, and every element strictly positive.
C1_AllStrictlyPositive ==
    Valid(params) =>
        \A r \in Returned :
            /\ Len(paths[r]) = params.steps + 1
            /\ paths[r][1] = params.S0
            /\ \A k \in 1..Len(paths[r]) : Positive(paths[r][k])

\* C1 amended: for valid parameters every trajectory generatePath returns has
\* steps+1 elements and element 0 equal to S0; no element is negative: each is
\* strictly positive, or 0 where std::exp or the product underflowed, or NaN
\* where an infinity met a zero; element 0 is strictly positive, and a
\* positive price is followed by 0 only where the step's product underflows.
C1_NeverNegative ==
    Valid(params) =>
        \A r \in Returned :
            /\ Len(paths[r]) = params.steps + 1
            /\ paths[r][1] = params.S0
            /\ Positive(paths[r][1])
            /\ \A k \in 1..Len(paths[r]) : Positive(paths[r][k]) \/ paths[r][k] \in {0, NaN}
            /\ \A k \in 1..(Len(paths[r]) - 1) :
                   (Positive(paths[r][k]) /\ paths[r][k + 1] = 0) =>
                       \E Z \in Draws : StepPrice(paths[r][k], params, Z) = 0

\* C1 witness: a valid run has returned a trajectory of several random steps,
\* and one whose price underflowed to 0.
C1_Witness ==
    /\ pc = "stats"
    /\ Valid(params)
    /\ params.steps >= 2
    /\ params.sigma > 0
    /\ \E r \in Returned : paths[r][params.steps + 1] = 0
    /\ \E r \in Returned : \A k \in 1..Len(paths[r]) : Positive(paths[r][k])

\* C2 as stated: parameters out of range are rejected before the core runs:
\* runMonteCarloSimulation, generatePath and calculateStatistics are never
\* entered and no statistics or export output is produced.
C2_InvalidRejected ==
    (pc # "input" /\ ~Valid(params)) =>
        /\ pc = "run"
        /\ calls = <<>>
        /\ ~stats.computed
        /\ ~all_paths_file.open
        /\ time_file = <<>>

NumPaths == Len(stats.final_prices)

Ascending(s) == \A k \in 1..(Len(s) - 1) : FLeq(s[k], s[k + 1])

Occurrences(s, v) == Cardinality({k \in 1..Len(s) : s[k] = v})

SameValues(s, t) ==
    /\ Len(s) = Len(t)
    /\ \A k \in 1..Len(s) : Occurrences(s, s[k]) = Occurrences(t, s[k])

\* percentile_5 and percentile_95 are the elements of sorted_prices at the
\* 0-based indices floor(num_paths/20) and floor(19*num_paths/20), both inside it.
AtPercentileIndices ==
    /\ (NumPaths \div 20) \in 0..(NumPaths - 1)
    /\ ((19 * NumPaths) \div 20) \in 0..(NumPaths - 1)
    /\ Len(stats.sorted_prices) = NumPaths
    /\ stats.percentile_5 = stats.sorted_prices[NumPaths \div 20 + 1]
    /\ stats.percentile_95 = stats.sorted_prices[(19 * NumPaths) \div 20 + 1]

PercentilesOrdered ==
    /\ FLeq(stats.min_price, stats.percentile_5)
    /\ FLeq(stats.percentile_5, stats.percentile_95)
    /\ FLeq(stats.percentile_95, stats.max_price)

\* C3 as stated: for any nonempty ensemble and any terminal values,
\* minimum <= percentile_5 <= percentile_95 <= maximum, and both percentile
\* indices lie within 0..num_paths-1.
C3_OrderedForAnyValues ==
    (stats.computed /\ NumPaths >= 1) => (PercentilesOrdered /\ AtPercentileIndices)

\* C3 amended: for any nonempty ensemble both percentile indices lie within
\* 0..num_paths-1, and minimum <= percentile_5 <= percentile_95 <= maximum
\* whenever no terminal value is NaN.
C3_OrderedWithoutNaN ==
    (stats.computed /\ NumPaths >= 1) =>
        /\ AtPercentileIndices
        /\ ~HasNaN(stats.final_prices) => PercentilesOrdered

\* C3 witness: statistics of 20 or more distinct terminal values, where neither
\* percentile is an extreme.
C3_Witness ==
    /\ stats.computed
    /\ NumPaths >= 20
    /\ FLess(stats.min_price, stats.percentile_5)
    /\ FLess(stats.percentile_5, stats.percentile_95)
    /\ FLess(stats.percentile_95, stats.max_price)

NearestRank ==
    /\ Ascending(stats.sorted_prices)
    /\ SameValues(stats.sorted_prices, stats.final_prices)
    /\ AtPercentileIndices
    /\ \E k \in 1..NumPaths : stats.percentile_5 = stats.final_prices[k]
    /\ \E k \in 1..NumPaths : stats.percentile_95 = stats.final_prices[k]
    /\ NumPaths = 100 =>
           /\ stats.percentile_5 = stats.sorted_prices[6]
           /\ stats.percentile_95 = stats.sorted_prices[96]
    /\ NumPaths < 20 => stats.percentile_5 = stats.min_price

\* C4 as stated: percentile(p) is the element at 0-based index
\* floor(p * num_paths) of the ascending-sorted terminal values, always one of
\* the terminal values; for 100 sorted values v[0..99] percentile_5 = v[5] and
\* percentile_95 = v[95]; for num_paths < 20 percentile_5 is the minimum.
C4_NearestRankForAnyValues ==
    (stats.computed /\ NumPaths >= 1) => NearestRank

\* C4 amended: the same, for terminal values without a NaN (std::sort needs
\* values that operator< orders); with a NaN the percentiles are still elements
\* of sorted_prices at those indices, but sorted_prices need not ascend and
\* percentile_5 need not be the minimum.
C4_NearestRankWithoutNaN ==
    (stats.computed /\ NumPaths >= 1) =>
        /\ AtPercentileIndices
        /\ ~HasNaN(stats.final_prices) => NearestRank

\* C4 witness: statistics of exactly 100 terminal values whose percentiles
\* differ from each other and from the minimum.
C4_Witness ==
    /\ stats.computed
    /\ NumPaths = 100
    /\ stats.percentile_5 # stats.percentile_95
    /\ stats.percentile_5 # stats.min_price

AllIdentical(s) == \A k \in 1..Len(s) : s[k] = s[1]

\* The population formula: sqrt of (sum of squared deviations / num_paths).
PopulationFormula ==
    stats.std_dev =
        FSqrt(FDivInt(SumSquaredDiff(stats.final_prices, stats.mean, 1, NumPaths, 0), NumPaths))

\* C5 as stated, taken for finite terminal values only: std_dev is the
\* population standard deviation, it is >= 0, and it is 0 if and only if all
\* terminal values are identical.
C5_ZeroIffIdentical ==
    (stats.computed /\ NumPaths >= 1
        /\ \A k \in 1..NumPaths : stats.final_prices[k] \in Finite) =>
        /\ PopulationFormula
        /\ FLeq(0, stats.std_dev)
        /\ (stats.std_dev = 0) <=> AllIdentical(stats.final_prices)

\* C5 amended: std_dev is the population standard deviation (divisor
\* num_paths) of the doubles computed; it is never negative (it is >= 0, or NaN
\* when a terminal value is infinite or NaN); it is 0 whenever every terminal
\* value is finite and equal to the computed mean, as for a single finite
\* value.  Identical values whose sum or quotient rounds have a mean that
\* differs from them and a nonzero std_dev, and distinct values whose squared
\* deviations underflow have std_dev 0.
C5_PopulationNeverNegative ==
    (stats.computed /\ NumPaths >= 1) =>
        /\ PopulationFormula
        /\ FLeq(0, stats.std_dev) \/ stats.std_dev = NaN
        /\ stats.std_dev = NaN =>
               \E k \in 1..NumPaths : stats.final_prices[k] \in {PInf, NaN}
        /\ (\A k \in 1..NumPaths :
                stats.final_prices[k] \in Finite /\ stats.final_prices[k] = stats.mean)
               => stats.std_dev = 0
        /\ (NumPaths = 1 /\ stats.final_prices[1] \in Finite) => stats.std_dev = 0

\* C5 witness: three identical finite terminal values whose mean rounds away
\* from them, so that std_dev is not 0.
C5_Witness ==
    /\ stats.computed
    /\ NumPaths = 3
    /\ AllIdentical(stats.final_prices)
    /\ stats.final_prices[1] \in Finite
    /\ stats.mean # stats.final_prices[1]
    /\ Positive(stats.std_dev)

\* The terminal value of the single trajectory.
Terminal == paths[1][params.steps + 1]

\* C6 as stated: for num_paths = 1 (valid parameters, any draws) mean, minimum,
\* maximum and both percentiles equal the last element of the single
\* trajectory, and std_dev is 0.
C6_SinglePathForAnyValue ==
    (stats.computed /\ Valid(params) /\ params.num_paths = 1) =>
        /\ FEq(stats.mean, Terminal)
        /\ FEq(stats.min_price, Terminal)
        /\ FEq(stats.max_price, Terminal)
        /\ FEq(stats.percentile_5, Terminal)
        /\ FEq(stats.percentile_95, Terminal)
        /\ stats.std_dev = 0

\* C6 amended: for num_paths = 1 minimum, maximum and both percentiles are the
\* last element of the single trajectory, and so is the mean unless that
\* element is NaN; they compare equal to it, and std_dev is 0, whenever the
\* element is finite.  For an element that overflowed to infinity std_dev is
\* NaN, and a NaN element compares equal to nothing.
C6_SinglePathFinite ==
    (stats.computed /\ params.num_paths = 1) =>
        /\ stats.min_price = Terminal
        /\ stats.max_price = Terminal
        /\ stats.percentile_5 = Terminal
        /\ stats.percentile_95 = Terminal
        /\ stats.mean = Terminal
        /\ Terminal \in Finite =>
               /\ FEq(stats.mean, Terminal)
               /\ FEq(stats.min_price, Terminal)
               /\ FEq(stats.max_price, Terminal)
               /\ FEq(stats.percentile_5, Terminal)
               /\ FEq(stats.percentile_95, Terminal)
               /\ stats.std_dev = 0
        /\ Terminal \in {PInf, NInf, NaN} => stats.std_dev = NaN

\* C6 witness: statistics of a single random trajectory of several steps that
\* ended above its start, at a finite value.
C6_Witness ==
    /\ stats.computed
    /\ Valid(params)
    /\ params.num_paths = 1
    /\ params.steps >= 2
    /\ params.sigma > 0
    /\ Terminal \in Finite
    /\ Terminal > params.S0

\* price[k] for sigma = 0: S0 multiplied k times by std::exp(mu * dt).
RECURSIVE Compounded(_, _)
Compounded(p, k) ==
    IF k = 0 THEN p.S0 ELSE FMul(Compounded(p, k - 1), FExp(FMul(p.mu, Dt(p))))

\* S0 * exp(mu * k * dt), computed directly.
ClosedForm(p, k) == FMul(p.S0, FExp(FMul(FMulInt(k, p.mu), Dt(p))))

\* Whatever was drawn, every trajectory returned and the one in the making are
\* the compounded prices.
Deterministic ==
    /\ \A r \in Returned : paths[r] = [k \in 1..(params.steps + 1) |-> Compounded(params, k - 1)]
    /\ pc = "gen" => \A k \in 1..j : path[k] = Compounded(params, k - 1)
    /\ \A r, q \in Returned : paths[r] = paths[q]

\* C7 as stated: for sigma = 0 the trajectory does not depend on the draws, every
\* step multiplies by exp(mu*dt), so price[i] = S0 * exp(mu*i*dt) for all i in
\* 0..steps, and all trajectories of the ensemble are identical.
C7_ClosedForm ==
    (Valid(params) /\ params.sigma = 0) =>
        /\ Deterministic
        /\ \A r \in Returned : \A k \in 0..params.steps :
               paths[r][k + 1] = ClosedForm(params, k)

\* C7 amended: for sigma = 0 the trajectory does not depend on the draws, every
\* step multiplies the previous price by the same double exp(mu*dt), and all
\* trajectories of the ensemble are identical; price[i] is S0 multiplied i times
\* by that factor, each product rounded, which is S0 * exp(mu*i*dt) exactly for
\* i <= 1 and only up to rounding beyond.
C7_Compounded ==
    (Valid(params) /\ params.sigma = 0) =>
        /\ Deterministic
        /\ \A r \in Returned : \A k \in 0..1 :
               paths[r][k + 1] = ClosedForm(params, k)

\* C7 witness: with sigma = 0 and mu # 0 two trajectories of three steps have
\* been returned after draws that differ.
C7_Witness ==
    /\ pc = "stats"
    /\ Valid(params)
    /\ params.sigma = 0
    /\ params.mu = One \div 2
    /\ params.steps = 3
    /\ params.num_paths = 2
    /\ paths[1][4] # paths[1][1]

\* i * T / steps, the product first.
ProductFirst(p, k) == FDivInt(FMulInt(k, p.T), p.steps)

\* The time-points export has steps+1 lines and line i is header cell i.
TimeFileMatchesHeader ==
    /\ Len(time_file) = params.steps + 1
    /\ Len(all_paths_file.header.cells) = params.steps + 1
    /\ all_paths_file.header.label = "Path"
    /\ \A k \in 0..params.steps : time_file[k + 1] = all_paths_file.header.cells[k + 1]

\* C8 as stated: the time-points export has steps+1 lines, line i is the time
\* value i*T/steps, equal to the i-th time value of the header of the paths table.
C8_ProductFirst ==
    (pc \in {"html", "done"} /\ Valid(params)) =>
        /\ TimeFileMatchesHeader
        /\ \A k \in 0..params.steps : time_file[k + 1] = Fmt(ProductFirst(params, k))

\* C8 amended: the time-points export has steps+1 lines, line i is the text of
\* the double i * (T/steps), the quotient T/steps rounded first and then
\* multiplied by i, at the stream's default precision, and it is the i-th time
\* value of the header of the paths table.
C8_QuotientFirst ==
    (pc \in {"html", "done"} /\ Valid(params)) =>
        /\ TimeFileMatchesHeader
        /\ \A k \in 0..params.steps :
               time_file[k + 1] = Fmt(FMulInt(k, FDivInt(params.T, params.steps)))

\* C8 witness: the exports of a run of three steps over one year are written,
\* where T/steps rounds.
C8_Witness ==
    /\ pc = "done"
    /\ Valid(params)
    /\ params.steps = 3
    /\ params.T = One
    /\ Len(time_file) = 4
    /\ time_file[3] # Fmt(ProductFirst(params, 2))

\* The draws taken so far are, in order, step 1..steps of path 0, then of
\* path 1, ...: draw d belongs to one path and one step.
DrawsInOrder ==
    \A d \in 1..Len(draws) :
        draws[d] = <<(d - 1) \div params.steps, ((d - 1) % params.steps) + 1>>

\* C9: runMonteCarloSimulation seeds one random source, once, before the first
\* path, and never again; generatePath is called once per path index in the
\* order 0..num_paths-1, each call drawing once per step from where the call
\* before left the source; the ensemble returned has num_paths trajectories of
\* steps+1 elements.
C9_OneSourceInOrder ==
    /\ pc \in {"input", "run"} => (gen.seeded = 0 /\ calls = <<>> /\ draws = <<>>)
    /\ pc \notin {"input", "run"} => gen.seeded = 1
    /\ calls = [k \in 1..Len(calls) |-> k - 1]
    /\ pc = "loop" => Len(calls) = i
    /\ pc = "gen" => (Len(calls) = i + 1 /\ gen.pos = i * params.steps + (j - 1))
    /\ pc = "loop" => gen.pos = i * params.steps
    /\ gen.pos = Len(draws)
    /\ DrawsInOrder
    /\ pc \in {"stats", "csv", "html", "done", "crashed"} =>
           /\ Len(paths) = params.num_paths
           /\ Len(calls) = params.num_paths
           /\ gen.pos = params.num_paths * params.steps
           /\ \A r \in 1..Len(paths) : Len(paths[r]) = params.steps + 1

\* C9 witness: the run has returned an ensemble of several paths of several
\* steps each.
C9_Witness ==
    /\ pc = "stats"
    /\ params.num_paths = MaxPaths
    /\ params.steps = MaxSteps
    /\ Len(draws) = MaxPaths * MaxSteps
    /\ draws[MaxSteps + 1] = <<1, 1>>

\* The rows of the paths table: one per path index in order, labelled from 1,
\* the cells the texts of the prices of that path.
RowsOf(ps, p) ==
    [r \in 1..p.num_paths |->
        [label |-> r, cells |-> [k \in 1..(p.steps + 1) |-> Fmt(ps[r][k])]]]

====
